---- MODULE Spec2Model ----
(***************************************************************************)
(* Buffered SD-card logger with backup retention.  Two variants of the     *)
(* firmware exist: "RTC" is src/unnamed/part_000 (DS1302 clock, the resume *)
(* ticker is a global), "CD" is src/CD.ino (no clock, the resume ticker is *)
(* a local of stopWritingAndSaveAsync).  The variant is fixed at boot.     *)
(*                                                                         *)
(* Arduino Strings are sequences of one-character strings.  A log record   *)
(* is kept as its sequence number; its serialized width is RecordLen.      *)
(***************************************************************************)
EXTENDS Integers, Sequences, FiniteSets, TLC

VARIABLES
    variant,       \* "RTC" or "CD"
    sdAvailable,   \* volatile bool sdAvailable
    lastNumber,    \* volatile long lastNumber
    writeEnabled,  \* volatile bool writeEnabled
    dataBuffer,    \* String dataBuffer, as the sequence of buffered records
    led,           \* level of LED_PIN: TRUE = HIGH (fault / do not disturb)
    resumeArmed,   \* the one-shot resume timer is pending
    card,          \* root directory of the SD card: sequence of [name, data]
    now,           \* clock steps since boot
    last,          \* the callback that ran last ("boot" before the first)
    serial,        \* messages the last callback printed (logMessage)
    flush,         \* what writeDataFromBuffer did in the last callback
    retention,     \* what cleanupOldBackups did in the last callback
    fails,         \* the current row of failed flushes
    probes,        \* scenario observer: outcomes of the probes so far
    events,        \* scenario observer: number of transition messages so far
    run,           \* scenario observer: the current run of buffering ticks
    timers,        \* scenario observer: the suspend and resume timers, in seconds
    stamp,         \* scenario observer: two clock readings and their rendering
    spaced,        \* scenario observer: clock step of the last createBackup
    pc             \* statement-level run: where the tick and the suspend stand

vars == <<variant, sdAvailable, lastNumber, writeEnabled, dataBuffer, led,
          resumeArmed, card, now, last, serial, flush, retention, fails,
          probes, events, run, timers, stamp, spaced, pc>>

core == <<variant, sdAvailable, lastNumber, writeEnabled, dataBuffer, led,
          resumeArmed, card, now, last, serial, flush, retention, fails>>

observers == <<probes, events, run, timers, stamp, spaced, pc>>

\* The observers of the later scenarios.
later == <<timers, stamp, spaced, pc>>

(***************************************************************************)
(* Bounds of the model.                                                    *)
(***************************************************************************)
MaxNumber == 4      \* ticks that buffer a record, in Spec
MaxClock == 2       \* clock steps, in Spec
MaxProbes == 5      \* probes, in SpecProbe
MaxTicks == 12      \* ticks that buffer a record, in SpecTicks
MaxOld == 11        \* backups already on the card, in SpecRetention
MaxFails == 3       \* failed flushes counted in a row
MaxQuota == 2       \* removals the medium grants in one retention pass
MaxSuspends == 3    \* firings of the suspend timer, in SpecTimers
MaxCopied == 2      \* records created in SpecBackups
MaxStamp == 8       \* clock steps read in SpecStamp
MaxRace == 2        \* records created in SpecInterleave

(***************************************************************************)
(* Program constants.                                                      *)
(***************************************************************************)
bufferSizeLimit == 10
MAX_BACKUP_FILES_RTC == 10
MAX_BACKUP_FILES_CD == 5
LOG_LEVEL == 3
TimestampLen == 19  \* width of "%04d-%02d-%02d %02d:%02d:%02d"
SUSPEND_PERIOD == 60  \* stopWriting.attach(60, ...)
RESUME_DELAY == 2     \* resumeWritingTicker.once(2, ...)

Variants == {"RTC", "CD"}

MAX_BACKUP_FILES == IF variant = "RTC" THEN MAX_BACKUP_FILES_RTC ELSE MAX_BACKUP_FILES_CD

(***************************************************************************)
(* Strings.                                                                *)
(***************************************************************************)
Digit == <<"0", "1", "2", "3", "4", "5", "6", "7", "8", "9">>

IsDigit(c) == \E d \in 1..10 : Digit[d] = c

DigitVal(c) == (CHOOSE d \in 1..10 : Digit[d] = c) - 1

RECURSIVE ToStr(_)
\* String(n) for n >= 0: the decimal digits.
ToStr(n) == IF n < 10 THEN <<Digit[n + 1]>> ELSE ToStr(n \div 10) \o <<Digit[(n % 10) + 1]>>

\* "%02d" and "%04d" of snprintf, for n >= 0.
Pad2(n) == IF n < 10 THEN <<"0">> \o ToStr(n) ELSE ToStr(n)

Pad4(n) == IF n < 10 THEN <<"0", "0", "0">> \o ToStr(n)
           ELSE IF n < 100 THEN <<"0", "0">> \o ToStr(n)
           ELSE IF n < 1000 THEN <<"0">> \o ToStr(n)
           ELSE ToStr(n)

StartsWith(s, p) == Len(s) >= Len(p) /\ SubSeq(s, 1, Len(p)) = p

\* String::lastIndexOf(ch): 0-based index of the last ch, -1 when absent.
LastIndexOf(s, ch) ==
    IF \E i \in 1..Len(s) : s[i] = ch
    THEN (CHOOSE i \in 1..Len(s) : s[i] = ch /\ \A j \in (i + 1)..Len(s) : s[j] # ch) - 1
    ELSE -1

\* String::substring(from, to) with 0-based from (inclusive) and to (exclusive).
Substring(s, from, to) ==
    LET lo == IF from > to THEN to ELSE from
        hi == IF from > to THEN from ELSE to
        h  == IF hi > Len(s) THEN Len(s) ELSE hi
    IN  IF lo < 0 \/ lo >= Len(s) THEN <<>> ELSE SubSeq(s, lo + 1, h)

RECURSIVE DigitsValue(_, _, _)
\* atol's digit loop: the value of the leading digits of s from position i.
\* Every name of the model has at most six leading digits, far below the
\* 32 bits of long.
DigitsValue(s, i, acc) ==
    IF i <= Len(s) /\ IsDigit(s[i])
    THEN DigitsValue(s, i + 1, acc * 10 + DigitVal(s[i]))
    ELSE acc

\* (unsigned long) String::toInt(): leading blanks skipped, then the leading
\* digits; 0 when there are none.  No name of the model carries a sign.
ToInt(s) ==
    LET blanks == {i \in 1..Len(s) : \A j \in 1..i : s[j] = " "}
    IN  DigitsValue(s, Cardinality(blanks) + 1, 0)

backupFileName == <<"/", "b", "a", "c", "k", "u", "p">>
dataFileName == <<"/", "e", "x", "a", "m", "p", "l", "e", ".", "t", "x", "t">>

(***************************************************************************)
(* Clock.  The DS1302 is read as a DateTime; clock step t is t seconds     *)
(* after 2024-01-01 23:59:57.  millis() advances 100 per clock step.       *)
(***************************************************************************)
RtcRead(t) ==
    LET total == 23 * 3600 + 59 * 60 + 57 + t
    IN  [year |-> 24, month |-> 1, day |-> 1 + (total \div 86400),
         hour |-> (total % 86400) \div 3600,
         minute |-> (total % 3600) \div 60,
         second |-> total % 60]

Millis(t) == 100 * t

getTimestamp(dt) ==
    LET s0 == dt.second + 2
        second == IF s0 >= 60 THEN s0 - 60 ELSE s0
        m0 == IF s0 >= 60 THEN dt.minute + 1 ELSE dt.minute
        minute == IF m0 >= 60 THEN m0 - 60 ELSE m0
        h0 == IF m0 >= 60 THEN dt.hour + 1 ELSE dt.hour
        hour == IF h0 >= 24 THEN h0 - 24 ELSE h0
    IN  Pad4(dt.year + 2000) \o <<"-">> \o Pad2(dt.month) \o <<"-">> \o Pad2(dt.day)
            \o <<" ">> \o Pad2(hour) \o <<":">> \o Pad2(minute) \o <<":">> \o Pad2(second)

\* The timestamp createBackup embeds in the file name at clock step t.
BackupStamp(v, t) == IF v = "RTC" THEN getTimestamp(RtcRead(t)) ELSE ToStr(Millis(t))

\* A backup path without the timestamp: every backup has the same name.
BackupPath_NoStamp(v, t) == backupFileName \o <<".", "t", "x", "t">>

BackupPath(v, t) == backupFileName \o <<"_">> \o BackupStamp(v, t) \o <<".", "t", "x", "t">>

(***************************************************************************)
(* Records and the buffer's length.                                        *)
(***************************************************************************)
\* A record without its timestamp in part_000 too.
RecordLen_NoTimestamp(v, n) == Len(ToStr(n)) + 1

\* Characters bufferData appends for record n.
RecordLen(v, n) ==
    IF v = "RTC" THEN TimestampLen + 2 + Len(ToStr(n)) + 1 ELSE Len(ToStr(n)) + 1

RECURSIVE BufferLength(_, _)
\* dataBuffer.length()
BufferLength(v, buf) ==
    IF buf = <<>> THEN 0 ELSE RecordLen(v, Head(buf)) + BufferLength(v, Tail(buf))

(***************************************************************************)
(* The file store (SD): a root directory listed in creation order.         *)
(***************************************************************************)
HasFile(c, name) == \E i \in 1..Len(c) : c[i].name = name

FileData(c, name) == c[CHOOSE i \in 1..Len(c) : c[i].name = name].data

\* SD.open(name, FILE_APPEND) then print(data): appends, creating the file.
AppendFile(c, name, data) ==
    IF HasFile(c, name)
    THEN [i \in 1..Len(c) |-> IF c[i].name = name
                              THEN [name |-> name, data |-> c[i].data \o data]
                              ELSE c[i]]
    ELSE Append(c, [name |-> name, data |-> data])

\* SD.open(name, FILE_WRITE) then write(data): truncates or creates the file.
WriteFile(c, name, data) ==
    IF HasFile(c, name)
    THEN [i \in 1..Len(c) |-> IF c[i].name = name
                              THEN [name |-> name, data |-> data]
                              ELSE c[i]]
    ELSE Append(c, [name |-> name, data |-> data])

\* SD.remove(name)
RemoveFile(c, name) == SelectSeq(c, LAMBDA e : e.name # name)

\* The records of the primary log, in file order.
DataLog == IF HasFile(card, dataFileName) THEN FileData(card, dataFileName) ELSE <<>>

IsBackup(e) == StartsWith(e.name, backupFileName)

Backups(c) == {c[i].name : i \in {j \in 1..Len(c) : IsBackup(c[j])}}

\* logMessage(level, message): printed when level <= LOG_LEVEL.
logMessage(level, message) == IF level <= LOG_LEVEL THEN <<message>> ELSE <<>>

(***************************************************************************)
(* writeDataFromBuffer, as a function of the state it reads and of the     *)
(* outcomes of SD.begin and SD.open.  It yields the state it leaves.       *)
(***************************************************************************)
\* writeDataFromBuffer that forgets to clear the buffer it has written.
WriteDataFromBuffer_KeepsBuffer(v, sd, ld, buf, c, beginOk, openOk) ==
    IF (v = "RTC" /\ ~beginOk) \/ (v = "CD" /\ ~sd)
    THEN [sd |-> (v = "CD" /\ sd), led |-> (v = "RTC" \/ ld), buf |-> buf, card |-> c,
          res |-> "unavailable",
          serial |-> logMessage(1, "SD card is not available for writing.")]
    ELSE IF ~openOk
    THEN [sd |-> (v = "RTC" \/ sd), led |-> (v = "CD" /\ ld), buf |-> buf, card |-> c,
          res |-> "openfailed", serial |-> logMessage(1, "Error opening file for writing.")]
    ELSE [sd |-> (v = "RTC" \/ sd), led |-> (v = "CD" /\ ld), buf |-> buf,
          card |-> AppendFile(c, dataFileName, buf), res |-> "written",
          serial |-> logMessage(3, "Data written: ")]

\* writeDataFromBuffer that clears the buffer although the log did not open.
WriteDataFromBuffer_DropsOnOpenFailure(v, sd, ld, buf, c, beginOk, openOk) ==
    IF (v = "RTC" /\ ~beginOk) \/ (v = "CD" /\ ~sd)
    THEN [sd |-> (v = "CD" /\ sd), led |-> (v = "RTC" \/ ld), buf |-> buf, card |-> c,
          res |-> "unavailable",
          serial |-> logMessage(1, "SD card is not available for writing.")]
    ELSE IF ~openOk
    THEN [sd |-> (v = "RTC" \/ sd), led |-> (v = "CD" /\ ld), buf |-> <<>>, card |-> c,
          res |-> "openfailed", serial |-> logMessage(1, "Error opening file for writing.")]
    ELSE [sd |-> (v = "RTC" \/ sd), led |-> (v = "CD" /\ ld), buf |-> <<>>,
          card |-> AppendFile(c, dataFileName, buf), res |-> "written",
          serial |-> logMessage(3, "Data written: ")]

\* writeDataFromBuffer that asserts the indicator on a failed SD.begin but
\* leaves sdAvailable as it was.
WriteDataFromBuffer_KeepsAvailable(v, sd, ld, buf, c, beginOk, openOk) ==
    IF (v = "RTC" /\ ~beginOk) \/ (v = "CD" /\ ~sd)
    THEN [sd |-> sd, led |-> (v = "RTC" \/ ld), buf |-> buf, card |-> c,
          res |-> "unavailable",
          serial |-> logMessage(1, "SD card is not available for writing.")]
    ELSE IF ~openOk
    THEN [sd |-> (v = "RTC" \/ sd), led |-> (v = "CD" /\ ld), buf |-> buf, card |-> c,
          res |-> "openfailed", serial |-> logMessage(1, "Error opening file for writing.")]
    ELSE [sd |-> (v = "RTC" \/ sd), led |-> (v = "CD" /\ ld), buf |-> <<>>,
          card |-> AppendFile(c, dataFileName, buf), res |-> "written",
          serial |-> logMessage(3, "Data written: ")]

\* writeDataFromBuffer that does not set sdAvailable after a successful SD.begin.
WriteDataFromBuffer_NeverUpgrades(v, sd, ld, buf, c, beginOk, openOk) ==
    IF (v = "RTC" /\ ~beginOk) \/ (v = "CD" /\ ~sd)
    THEN [sd |-> (v = "CD" /\ sd), led |-> (v = "RTC" \/ ld), buf |-> buf, card |-> c,
          res |-> "unavailable",
          serial |-> logMessage(1, "SD card is not available for writing.")]
    ELSE IF ~openOk
    THEN [sd |-> sd, led |-> (v = "CD" /\ ld), buf |-> buf, card |-> c,
          res |-> "openfailed", serial |-> logMessage(1, "Error opening file for writing.")]
    ELSE [sd |-> sd, led |-> (v = "CD" /\ ld), buf |-> <<>>,
          card |-> AppendFile(c, dataFileName, buf), res |-> "written",
          serial |-> logMessage(3, "Data written: ")]

WriteDataFromBuffer(v, sd, ld, buf, c, beginOk, openOk) ==
    IF v = "RTC"
    THEN IF ~beginOk
         THEN [sd |-> FALSE, led |-> TRUE, buf |-> buf, card |-> c, res |-> "unavailable",
               serial |-> logMessage(1, "SD card is not available for writing.")]
         ELSE IF ~openOk
         THEN [sd |-> TRUE, led |-> FALSE, buf |-> buf, card |-> c, res |-> "openfailed",
               serial |-> logMessage(1, "Error opening file for writing.")]
         ELSE [sd |-> TRUE, led |-> FALSE, buf |-> <<>>,
               card |-> AppendFile(c, dataFileName, buf), res |-> "written",
               serial |-> logMessage(3, "Data written: ")]
    ELSE IF ~sd
         THEN [sd |-> sd, led |-> ld, buf |-> buf, card |-> c, res |-> "unavailable",
               serial |-> logMessage(1, "SD card is not available for writing.")]
         ELSE IF ~openOk
         THEN [sd |-> sd, led |-> ld, buf |-> buf, card |-> c, res |-> "openfailed",
               serial |-> logMessage(1, "Error opening file for writing.")]
         ELSE [sd |-> sd, led |-> ld, buf |-> <<>>,
               card |-> AppendFile(c, dataFileName, buf), res |-> "written",
               serial |-> logMessage(3, "Data written: ")]

NoFlush == [called |-> FALSE, from |-> "none", sdBefore |-> FALSE, begin |-> FALSE,
            res |-> "none", wrote |-> <<>>]

\* The record of a call of writeDataFromBuffer: f is what it yielded.
FlushCall(from, sd, buf, beginOk, f) ==
    [called |-> TRUE, from |-> from, sdBefore |-> sd, begin |-> beginOk, res |-> f.res,
     wrote |-> IF f.res = "written" THEN buf ELSE <<>>]

NoRetention == [ran |-> FALSE, before |-> <<>>, failed |-> FALSE, attempts |-> <<>>]

NoFails == [n |-> 0, buf |-> <<>>, log |-> <<>>]

\* The row of failed flushes after a call that found buffer buf and log lg:
\* a write ends the row, a failure starts or extends it.
FailsAfter(fl, f, buf, lg) ==
    IF f.res = "written" THEN NoFails
    ELSE IF fl.n = 0 THEN [n |-> 1, buf |-> buf, log |-> lg]
    ELSE [fl EXCEPT !.n = IF fl.n < MaxFails THEN fl.n + 1 ELSE fl.n]

LogOf(c) == IF HasFile(c, dataFileName) THEN FileData(c, dataFileName) ELSE <<>>

(***************************************************************************)
(* The callbacks.  Each runs to completion (the Ticker library calls them  *)
(* one at a time).                                                         *)
(***************************************************************************)
checkSDCard(ok) ==
    /\ sdAvailable' = ok
    /\ led' = ~ok
    /\ serial' = IF variant = "RTC"
                 THEN IF ok
                      THEN IF ~sdAvailable THEN logMessage(3, "SD card found.") ELSE <<>>
                      ELSE IF sdAvailable THEN logMessage(1, "SD card not found!") ELSE <<>>
                 ELSE IF ok THEN logMessage(3, "SD card found.")
                      ELSE logMessage(1, "SD card not found!")
    /\ last' = "probe"
    /\ flush' = NoFlush
    /\ retention' = NoRetention
    /\ UNCHANGED <<variant, lastNumber, writeEnabled, dataBuffer, resumeArmed, card, now, fails>>

\* A tick whose gate looks at writeEnabled only.
bufferData_IgnoresAvailability(cap, beginOk, openOk) ==
    /\ last' = "tick"
    /\ retention' = NoRetention
    /\ UNCHANGED <<variant, writeEnabled, resumeArmed, now>>
    /\ IF ~writeEnabled
       THEN /\ serial' = <<>>
            /\ flush' = NoFlush
            /\ UNCHANGED <<sdAvailable, lastNumber, dataBuffer, led, card, fails>>
       ELSE /\ lastNumber < cap
            /\ lastNumber' = lastNumber + 1
            /\ LET buf == Append(dataBuffer, lastNumber + 1)
               IN  IF BufferLength(variant, buf) >= bufferSizeLimit
                   THEN LET f == WriteDataFromBuffer(variant, sdAvailable, led, buf, card,
                                                     beginOk, openOk)
                        IN  /\ sdAvailable' = f.sd
                            /\ led' = f.led
                            /\ dataBuffer' = f.buf
                            /\ card' = f.card
                            /\ serial' = f.serial
                            /\ flush' = FlushCall("tick", sdAvailable, buf, beginOk, f)
                            /\ fails' = FailsAfter(NoFails, f, buf, LogOf(card))
                   ELSE /\ dataBuffer' = buf
                        /\ serial' = <<>>
                        /\ flush' = NoFlush
                        /\ fails' = NoFails
                        /\ UNCHANGED <<sdAvailable, led, card>>

bufferData(cap, beginOk, openOk) ==
    /\ last' = "tick"
    /\ retention' = NoRetention
    /\ UNCHANGED <<variant, writeEnabled, resumeArmed, now>>
    /\ IF ~writeEnabled \/ ~sdAvailable
       THEN /\ serial' = <<>>
            /\ flush' = NoFlush
            /\ UNCHANGED <<sdAvailable, lastNumber, dataBuffer, led, card, fails>>
       ELSE /\ lastNumber < cap
            /\ lastNumber' = lastNumber + 1
            /\ LET buf == Append(dataBuffer, lastNumber + 1)
               IN  IF BufferLength(variant, buf) >= bufferSizeLimit
                   THEN LET f == WriteDataFromBuffer(variant, sdAvailable, led, buf, card,
                                                     beginOk, openOk)
                        IN  /\ sdAvailable' = f.sd
                            /\ led' = f.led
                            /\ dataBuffer' = f.buf
                            /\ card' = f.card
                            /\ serial' = f.serial
                            /\ flush' = FlushCall("tick", sdAvailable, buf, beginOk, f)
                            /\ fails' = FailsAfter(NoFails, f, buf, LogOf(card))
                   ELSE /\ dataBuffer' = buf
                        /\ serial' = <<>>
                        /\ flush' = NoFlush
                        /\ fails' = NoFails
                        /\ UNCHANGED <<sdAvailable, led, card>>

stopWritingAndSaveAsync(beginOk, openOk) ==
    /\ writeEnabled' = FALSE
    /\ last' = "suspend"
    /\ retention' = NoRetention
    \* CD.ino arms a Ticker local to the function: its destructor detaches it
    \* on return, and the one-shot never fires.
    /\ resumeArmed' = (variant = "RTC")
    /\ UNCHANGED <<variant, lastNumber, now>>
    /\ IF Len(dataBuffer) > 0
       THEN LET f == WriteDataFromBuffer(variant, sdAvailable, TRUE, dataBuffer, card,
                                         beginOk, openOk)
            IN  /\ sdAvailable' = f.sd
                /\ led' = f.led
                /\ dataBuffer' = f.buf
                /\ card' = f.card
                /\ serial' = f.serial
                /\ flush' = FlushCall("suspend", sdAvailable, dataBuffer, beginOk, f)
                /\ fails' = FailsAfter(fails, f, dataBuffer, LogOf(card))
       ELSE /\ led' = TRUE
            /\ serial' = <<>>
            /\ flush' = NoFlush
            /\ UNCHANGED <<sdAvailable, dataBuffer, card, fails>>

\* A resume lambda that clears the indicator but leaves the gate closed.
resumeWriting_KeepsGate ==
    /\ resumeArmed
    /\ resumeArmed' = FALSE
    /\ led' = FALSE
    /\ last' = "resume"
    /\ serial' = <<>>
    /\ flush' = NoFlush
    /\ retention' = NoRetention
    /\ UNCHANGED <<variant, sdAvailable, lastNumber, writeEnabled, dataBuffer, card, now, fails>>

\* A resume armed with attach instead of once: it stays armed.
resumeWriting_StaysArmed ==
    /\ resumeArmed
    /\ resumeArmed' = TRUE
    /\ led' = FALSE
    /\ writeEnabled' = TRUE
    /\ last' = "resume"
    /\ serial' = <<>>
    /\ flush' = NoFlush
    /\ retention' = NoRetention
    /\ UNCHANGED <<variant, sdAvailable, lastNumber, dataBuffer, card, now, fails>>

\* The lambda resumeWritingTicker.once(2, ...) runs.
resumeWriting ==
    /\ resumeArmed
    /\ resumeArmed' = FALSE
    /\ led' = FALSE
    /\ writeEnabled' = TRUE
    /\ last' = "resume"
    /\ serial' = <<>>
    /\ flush' = NoFlush
    /\ retention' = NoRetention
    /\ UNCHANGED <<variant, sdAvailable, lastNumber, dataBuffer, card, now, fails>>

(***************************************************************************)
(* cleanupOldBackups.  root is opened once and read to its end by the      *)
(* counting loop; the eviction loop goes on calling root.openNextFile()    *)
(* on the same handle, which is never rewound.                             *)
(***************************************************************************)
\* fileCount after the counting loop.
CountBackups(c) == Cardinality({i \in 1..Len(c) : IsBackup(c[i])})

\* Position of root in the listing when the counting loop ends: past the end.
RootAfterCount(c) == Len(c) + 1

\* The key the eviction loop parses from a file name.
FileTime(fileName) ==
    ToInt(Substring(fileName, Len(backupFileName) + 1, LastIndexOf(fileName, ".")))

RECURSIVE ScanOldest(_, _, _, _)
\* The inner loop, reading the listing c from position pos on; name and time
\* are oldestFileName and oldestFileTime.
ScanOldest(c, pos, name, time) ==
    IF pos > Len(c) THEN [name |-> name, time |-> time]
    ELSE IF IsBackup(c[pos]) /\ FileTime(c[pos].name) < time
         THEN ScanOldest(c, pos + 1, c[pos].name, FileTime(c[pos].name))
         ELSE ScanOldest(c, pos + 1, name, time)

RECURSIVE EvictLoop_SkipsFailure(_, _, _, _, _, _, _)
\* An eviction loop that moves on to the next file when a removal fails.
EvictLoop_SkipsFailure(max, c, pos, fileCount, ms, quota, attempts) ==
    IF fileCount <= max
    THEN [card |-> c, failed |-> FALSE, attempts |-> attempts]
    ELSE LET oldest == ScanOldest(c, pos, <<>>, ms)
             removed == quota > 0 /\ HasFile(c, oldest.name)
             tried == Append(attempts, [name |-> oldest.name, ok |-> removed])
         IN  IF removed
             THEN EvictLoop_SkipsFailure(max, RemoveFile(c, oldest.name), Len(c),
                                         fileCount - 1, ms, quota - 1, tried)
             ELSE EvictLoop_SkipsFailure(max, c, Len(c) + 1, fileCount - 1, ms, quota, tried)

RECURSIVE EvictLoop(_, _, _, _, _, _, _)
\* while (fileCount > MAX_BACKUP_FILES): pos is root's position, ms is millis(),
\* quota the number of removals the medium still grants, attempts the calls
\* of SD.remove so far.
EvictLoop(max, c, pos, fileCount, ms, quota, attempts) ==
    IF fileCount <= max
    THEN [card |-> c, failed |-> FALSE, attempts |-> attempts]
    ELSE LET oldest == ScanOldest(c, pos, <<>>, ms)
             removed == quota > 0 /\ HasFile(c, oldest.name)
             tried == Append(attempts, [name |-> oldest.name, ok |-> removed])
         IN  IF removed
             THEN EvictLoop(max, RemoveFile(c, oldest.name), Len(c), fileCount - 1, ms,
                            quota - 1, tried)
             ELSE [card |-> c, failed |-> TRUE, attempts |-> tried]

\* A pass that rewinds root and keeps one backup fewer than the maximum.
cleanupOldBackups_OffByOne(max, c, ms, quota) ==
    EvictLoop(max - 1, c, 1, CountBackups(c), ms, quota, <<>>)

cleanupOldBackups(max, c, ms, quota) ==
    EvictLoop(max, c, RootAfterCount(c), CountBackups(c), ms, quota, <<>>)

createBackup(readOk, writeOk, quota) ==
    /\ last' = "backup"
    /\ flush' = NoFlush
    /\ UNCHANGED <<variant, sdAvailable, lastNumber, writeEnabled, dataBuffer, led,
                   resumeArmed, now, fails>>
    /\ IF ~sdAvailable
       THEN /\ serial' = <<>>
            /\ retention' = NoRetention
            /\ UNCHANGED card
       ELSE IF ~(readOk /\ HasFile(card, dataFileName))
       THEN /\ serial' = logMessage(1, "Error opening data file for backup.")
            /\ retention' = NoRetention
            /\ UNCHANGED card
       ELSE IF ~writeOk
       THEN /\ serial' = logMessage(1, "Error creating backup file.")
            /\ retention' = NoRetention
            /\ UNCHANGED card
       ELSE LET copied == WriteFile(card, BackupPath(variant, now), FileData(card, dataFileName))
                r == cleanupOldBackups(MAX_BACKUP_FILES, copied, Millis(now), quota)
            IN  /\ card' = r.card
                /\ serial' = logMessage(3, "Backup created: ")
                       \o [i \in 1..Len(r.attempts) |->
                              IF r.attempts[i].ok THEN "Deleted old backup: "
                              ELSE "Failed to delete old backup: "]
                /\ retention' = [ran |-> TRUE, before |-> copied, failed |-> r.failed,
                                 attempts |-> r.attempts]

\* Time passes: one clock step.
Elapse ==
    /\ now < MaxClock
    /\ now' = now + 1
    /\ UNCHANGED <<variant, sdAvailable, lastNumber, writeEnabled, dataBuffer, led,
                   resumeArmed, card, last, serial, flush, retention, fails>>

(***************************************************************************)
(* Boot: the globals as initialised, LED_PIN low after pinMode, an SD card *)
(* that holds no file yet.                                                 *)
(***************************************************************************)
Boot ==
    /\ variant \in Variants
    /\ sdAvailable = FALSE
    /\ lastNumber = 0
    /\ writeEnabled = TRUE
    /\ dataBuffer = <<>>
    /\ led = FALSE
    /\ resumeArmed = FALSE
    /\ last = "boot"
    /\ serial = <<>>
    /\ flush = NoFlush
    /\ retention = NoRetention
    /\ fails = NoFails
    /\ probes = <<>>
    /\ events = 0
    /\ run = [len |-> 0, start |-> 0, flushes |-> 0]
    /\ timers = [suspendIn |-> SUSPEND_PERIOD, resumeIn |-> -1, pending |-> 0,
                 suspends |-> 0, resumes |-> 0]
    /\ spaced = -1
    /\ pc = [tick |-> "idle", susp |-> "idle", raced |-> FALSE]

\* No clock reading rendered yet.
NoStamp == [t1 |-> 0, t2 |-> 0, done |-> FALSE, s1 |-> <<>>, s2 |-> <<>>, k1 |-> 0, k2 |-> 0]

Init == Boot /\ card = <<>> /\ now = 0 /\ stamp = NoStamp

Probe == (\E ok \in BOOLEAN : checkSDCard(ok)) /\ UNCHANGED observers

Tick ==
    /\ \E beginOk \in BOOLEAN, openOk \in BOOLEAN : bufferData(MaxNumber, beginOk, openOk)
    /\ UNCHANGED observers

Suspend ==
    /\ \E beginOk \in BOOLEAN, openOk \in BOOLEAN : stopWritingAndSaveAsync(beginOk, openOk)
    /\ UNCHANGED observers

Resume == resumeWriting /\ UNCHANGED observers

Backup ==
    /\ \E readOk \in BOOLEAN, writeOk \in BOOLEAN, quota \in 0..MaxQuota :
           createBackup(readOk, writeOk, quota)
    /\ UNCHANGED observers

Tock == Elapse /\ UNCHANGED observers

Next == Probe \/ Tick \/ Suspend \/ Resume \/ Backup \/ Tock

Spec == Init /\ [][Next]_vars

(***************************************************************************)
(* Properties of the callbacks, under Spec.                                *)
(***************************************************************************)

\* C1: the sequence numbers of the records of the primary log, in file
\* order, are exactly 1, 2, ..., k for some k <= lastNumber.
C1_LogSequence ==
    /\ Len(DataLog) <= lastNumber
    /\ \A i \in 1..Len(DataLog) : DataLog[i] = i

\* A flush that wrote the records kept across an unavailable gap, after an
\* earlier flush.
C1_Witness ==
    /\ flush.res = "written"
    /\ Len(flush.wrote) >= 2
    /\ Len(DataLog) > Len(flush.wrote)

\* C2: while flushes fail in a row, the buffer and the primary log are what
\* they were before the first failure; the buffer shrinks only in a flush
\* that wrote it, whole, to the end of the primary log.
C2_FailedFlushKeepsBuffer ==
    /\ [](fails.n > 0 => dataBuffer = fails.buf /\ DataLog = fails.log)
    /\ [][Len(dataBuffer') < Len(dataBuffer) =>
            /\ flush'.res = "written"
            /\ dataBuffer' = <<>>
            /\ LogOf(card') = LogOf(card) \o flush'.wrote]_vars

\* Three flushes have failed in a row on a buffer that holds records.
C2_Witness == fails.n >= 3 /\ Len(dataBuffer) > 0

\* C4: while the resume one-shot is pending the write gate is closed, and
\* when it has fired the gate is open and the indicator is cleared.
C4_SuspendResume ==
    /\ resumeArmed => ~writeEnabled
    /\ last = "resume" => writeEnabled /\ ~led /\ ~resumeArmed

\* The resume has fired after a suspend that flushed records.
C4_Witness == last = "resume" /\ writeEnabled /\ Len(DataLog) > 0

\* C7: while writes are suspended no probe, tick or backup callback writes
\* to the card: none appends to the primary log, none creates a backup.
C7_NoWriteInWindow ==
    (variant = "RTC" /\ ~writeEnabled /\ last \in {"probe", "tick", "backup"}) =>
        (flush.res # "written" /\ ~retention.ran)

\* C8: between callbacks, if storage is unavailable or writes are suspended
\* the indicator is asserted.  Stated of the states that follow a callback
\* that drives the indicator (before the first of them LED_PIN is low).
C8_FaultWhenDownOrSuspended ==
    (variant = "RTC" /\ last \in {"probe", "suspend", "resume"}) =>
        ((~sdAvailable \/ ~writeEnabled) => led)

\* C9: between callbacks, if the indicator is asserted then storage is
\* unavailable or writes are suspended.
C9_FaultOnlyWhenDownOrSuspended == led => (~sdAvailable \/ ~writeEnabled)

\* A flush found the card gone and asserted the indicator.
C9_Witness == flush.res = "unavailable" /\ led /\ writeEnabled /\ variant = "RTC"

\* C10 as stated: after a call of writeDataFromBuffer, sdAvailable is false
\* or what it was before the call.
C10_FlushNeverUpgrades == flush.called => (~sdAvailable \/ sdAvailable = flush.sdBefore)

\* C10 amended: writeDataFromBuffer leaves sdAvailable equal to the outcome
\* of its own SD.begin (in CD.ino, which does not re-validate, unchanged);
\* reached from a tick it never turns it from false to true.
C10_FlushSetsProbeOutcome ==
    flush.called =>
        /\ variant = "RTC" => sdAvailable = flush.begin
        /\ variant = "CD" => sdAvailable = flush.sdBefore
        /\ flush.from = "tick" => (~sdAvailable \/ sdAvailable = flush.sdBefore)

\* The flush forced by suspend found sdAvailable false and set it true.
C10_Witness == flush.called /\ flush.from = "suspend" /\ ~flush.sdBefore /\ sdAvailable

(***************************************************************************)
(* SpecProbe: sequences of probe outcomes fed to checkSDCard from boot.    *)
(* probes is the sequence of outcomes, events the number of transition     *)
(* messages ("SD card found." / "SD card not found!") printed so far.      *)
(***************************************************************************)
ProbeCounted ==
    /\ Len(probes) < MaxProbes
    /\ \E ok \in BOOLEAN : checkSDCard(ok) /\ probes' = Append(probes, ok)
    /\ events' = events + Len(serial')
    /\ UNCHANGED <<run, later>>

NextProbe == ProbeCounted

SpecProbe == Init /\ [][NextProbe]_vars

\* Positions of outcomes that differ from the availability state before
\* them (unavailable at boot, then the previous outcome).
Edges(outcomes) ==
    Cardinality({i \in 1..Len(outcomes) :
                    outcomes[i] # (IF i = 1 THEN FALSE ELSE outcomes[i - 1])})

\* C5: the number of transition messages equals the number of edges of the
\* probe sequence, and the last probe printed a message exactly on an edge:
\* the info message on a rising edge, the error message on a falling one.
C5_EventsEqualEdges ==
    /\ events = Edges(probes)
    /\ Len(probes) > 0 =>
          LET prev == IF Len(probes) = 1 THEN FALSE ELSE probes[Len(probes) - 1]
              ok == probes[Len(probes)]
          IN  serial = IF ok = prev THEN <<>>
                       ELSE IF ok THEN <<"SD card found.">> ELSE <<"SD card not found!">>

(***************************************************************************)
(* SpecTicks: probes and ticks only.  run is the current run of            *)
(* consecutive ticks that buffered a record with storage available: it     *)
(* starts at a tick that finds the buffer empty, and any other callback, a *)
(* tick that finds the gate closed and a flush that fails end it.          *)
(***************************************************************************)
NoRun == [len |-> 0, start |-> 0, flushes |-> 0]

ProbeBetweenTicks ==
    /\ \E ok \in BOOLEAN : checkSDCard(ok)
    /\ run' = NoRun
    /\ UNCHANGED <<probes, events, later>>

TickCounted ==
    /\ \E beginOk \in BOOLEAN, openOk \in BOOLEAN : bufferData(MaxTicks, beginOk, openOk)
    /\ run' = IF ~(writeEnabled /\ sdAvailable) THEN NoRun
              ELSE IF flush'.called /\ flush'.res # "written" THEN NoRun
              ELSE IF run.len = 0 /\ dataBuffer # <<>> THEN NoRun
              ELSE [len |-> run.len + 1,
                    start |-> IF run.len = 0 THEN lastNumber ELSE run.start,
                    flushes |-> run.flushes + (IF flush'.called THEN 1 ELSE 0)]
    /\ UNCHANGED <<probes, events, later>>

NextTicks == ProbeBetweenTicks \/ TickCounted

SpecTicks == Init /\ [][NextTicks]_vars

\* The primary log ends with the ten records of the run, in creation order.
RunLogged ==
    /\ Len(DataLog) = run.start + 10
    /\ \A i \in 1..10 : DataLog[run.start + i] = run.start + i

\* C6 as stated: ten consecutive ticks from an empty buffer trigger exactly
\* one flush, on the tenth tick, and the log then holds the ten records.
C6_OneFlushInTenTicks ==
    run.len = 10 => (run.flushes = 1 /\ flush.called /\ RunLogged)

\* C6 amended: the threshold counts characters.  Ten consecutive ticks from
\* an empty buffer trigger a flush on every tick in part_000 (ten flushes)
\* and, counting from boot, on the fifth and the tenth tick in CD.ino (two
\* flushes); after the tenth tick the buffer is empty and the primary log
\* holds the ten records in creation order.
C6_FlushesByCharacters ==
    (run.len = 10 /\ (variant = "CD" => run.start = 0)) =>
        /\ run.flushes = IF variant = "RTC" THEN 10 ELSE 2
        /\ flush.called
        /\ dataBuffer = <<>>
        /\ RunLogged

\* Ten consecutive ticks have buffered ten records in part_000.
C6_Witness == run.len = 10 /\ variant = "RTC"

(***************************************************************************)
(* SpecRetention: createBackup on a card that already holds the primary    *)
(* log and backups of earlier runs, listed in creation order; the clock    *)
(* stands one step after the newest of them.                               *)
(***************************************************************************)
RECURSIVE OldBackups(_, _, _)
\* The backups taken at the clock steps of S up to t, oldest first.
OldBackups(v, S, t) ==
    IF t = 0 THEN <<>>
    ELSE IF t \in S
         THEN Append(OldBackups(v, S, t - 1), [name |-> BackupPath(v, t), data |-> <<1>>])
         ELSE OldBackups(v, S, t - 1)

InitRetention ==
    /\ Boot
    /\ stamp = NoStamp
    /\ \E S \in SUBSET (1..MaxOld) :
          /\ card = <<[name |-> dataFileName, data |-> <<1>>]>> \o OldBackups(variant, S, MaxOld)
          /\ now = IF S = {} THEN 1 ELSE (CHOOSE t \in S : \A u \in S : u <= t) + 1

NextRetention == Probe \/ Backup

SpecRetention == InitRetention /\ [][NextRetention]_vars

\* The medium refused to remove a file that was there.
DeletionRefused(r) ==
    \E i \in 1..Len(r.attempts) : ~r.attempts[i].ok /\ HasFile(r.before, r.attempts[i].name)

DistinctTimes(names) == \A a \in names, b \in names : a # b => FileTime(a) # FileTime(b)

\* The max names of the set with the largest embedded timestamps.
Newest(names, max) ==
    {a \in names : Cardinality({b \in names : FileTime(b) > FileTime(a)}) < max}

\* C3: after a retention pass in which the medium refused no removal, on
\* backups with distinct embedded timestamps, at most MAX_BACKUP_FILES
\* backups remain, and they are the newest of those the pass started with.
C3_RetentionKeepsNewest ==
    (/\ last = "backup" /\ retention.ran
     /\ ~DeletionRefused(retention)
     /\ DistinctTimes(Backups(retention.before))) =>
        /\ CountBackups(card) <= MAX_BACKUP_FILES
        /\ Backups(card) = Newest(Backups(retention.before), MAX_BACKUP_FILES)

\* Names the pass had removed before its i-th call of SD.remove.
RemovedBefore(r, i) == {r.attempts[j].name : j \in {k \in 1..(i - 1) : r.attempts[k].ok}}

\* C16: within one retention pass a failed deletion is the last deletion
\* attempted, and every backup deleted was, when it was deleted, the one with
\* the smallest embedded timestamp.
C16_RetentionFailFast ==
    (last = "backup" /\ retention.ran) =>
        /\ \A i \in 1..Len(retention.attempts) :
               ~retention.attempts[i].ok => i = Len(retention.attempts)
        /\ retention.failed <=>
               \E i \in 1..Len(retention.attempts) : ~retention.attempts[i].ok
        /\ \A i \in 1..Len(retention.attempts) :
               retention.attempts[i].ok =>
                   \A b \in Backups(retention.before) \ RemovedBefore(retention, i) :
                       FileTime(retention.attempts[i].name) <= FileTime(b)

\* A pass has failed a deletion with at least two backups over the maximum.
C16_Witness ==
    /\ last = "backup"
    /\ retention.failed
    /\ CountBackups(retention.before) >= MAX_BACKUP_FILES + 2

\* C20: a retention pass keeps every file whose name does not start with the
\* backup prefix, the primary log among them, with its content, and changes
\* nothing when the number of backups does not exceed MAX_BACKUP_FILES.
C20_RetentionKeepsOtherFiles ==
    (last = "backup" /\ retention.ran) =>
        /\ \A i \in 1..Len(retention.before) :
               ~IsBackup(retention.before[i]) =>
                   /\ HasFile(card, retention.before[i].name)
                   /\ FileData(card, retention.before[i].name) = retention.before[i].data
        /\ \A i \in 1..Len(retention.attempts) :
               retention.attempts[i].ok =>
                   StartsWith(retention.attempts[i].name, backupFileName)
        /\ CountBackups(retention.before) <= MAX_BACKUP_FILES =>
               /\ card = retention.before
               /\ retention.attempts = <<>>

\* A pass has run with exactly MAX_BACKUP_FILES backups on the card.
C20_Witness ==
    /\ last = "backup"
    /\ retention.ran
    /\ CountBackups(retention.before) = MAX_BACKUP_FILES
    /\ HasFile(card, dataFileName)

(***************************************************************************)
(* SpecTimers: the suspend timer (every SUSPEND_PERIOD seconds) and the    *)
(* resume one-shot (RESUME_DELAY seconds after it is armed), second by     *)
(* second.  A timer that is due fires before the next second passes.       *)
(* timers.pending counts the armed one-shots, suspends and resumes the     *)
(* firings so far.                                                         *)
(***************************************************************************)
\* Ticker::once on a ticker that is already armed detaches it first: one
\* one-shot is pending afterwards, whatever was pending before.
ArmOnce(pending) == 1

SuspendDue ==
    /\ timers.suspendIn = 0
    /\ timers.suspends < MaxSuspends
    /\ \E beginOk \in BOOLEAN, openOk \in BOOLEAN : stopWritingAndSaveAsync(beginOk, openOk)
    /\ timers' = [suspendIn |-> SUSPEND_PERIOD,
                  resumeIn |-> IF resumeArmed' THEN RESUME_DELAY ELSE -1,
                  pending |-> IF resumeArmed' THEN ArmOnce(timers.pending) ELSE 0,
                  suspends |-> timers.suspends + 1,
                  resumes |-> timers.resumes]
    /\ UNCHANGED <<probes, events, run, stamp, spaced, pc>>

ResumeDue ==
    /\ timers.resumeIn = 0
    /\ resumeWriting
    /\ timers' = [timers EXCEPT !.resumes = @ + 1,
                                !.resumeIn = IF resumeArmed' THEN RESUME_DELAY ELSE -1,
                                !.pending = IF resumeArmed' THEN @ ELSE @ - 1]
    /\ UNCHANGED <<probes, events, run, stamp, spaced, pc>>

SecondPasses ==
    /\ timers.suspendIn > 0
    /\ timers.resumeIn # 0
    /\ timers' = [timers EXCEPT !.suspendIn = @ - 1,
                                !.resumeIn = IF @ > 0 THEN @ - 1 ELSE @]
    /\ UNCHANGED <<core, probes, events, run, stamp, spaced, pc>>

NextTimers == SuspendDue \/ ResumeDue \/ SecondPasses

SpecTimers == Init /\ [][NextTimers]_vars

\* Seconds since the suspend timer fired last.
SinceSuspend == SUSPEND_PERIOD - timers.suspendIn

\* C11: in part_000 the resume has fired once for each suspend by the time
\* the next suspend is due, never more often than the suspend, and at most
\* one resume is pending at any time.
C11_OneResumePerSuspend ==
    variant = "RTC" =>
        /\ timers.resumes <= timers.suspends
        /\ timers.pending = timers.suspends - timers.resumes
        /\ timers.pending <= 1
        /\ resumeArmed <=> timers.pending = 1
        /\ timers.suspendIn = 0 => timers.resumes = timers.suspends

\* The second suspend has been followed by its resume.
C11_Witness == variant = "RTC" /\ timers.suspends >= 2 /\ timers.resumes = timers.suspends

\* C12: in CD.ino, once the grace period has passed since a suspend, the
\* resume has fired and writes are enabled again.
C12_ResumeFollowsSuspend ==
    (variant = "CD" /\ timers.suspends > 0 /\ SinceSuspend > RESUME_DELAY) => writeEnabled

(***************************************************************************)
(* The tick's gate and the bound of the buffer, under Spec.                *)
(***************************************************************************)
\* C14: a bufferData tick that runs while writeEnabled is false or
\* sdAvailable is false changes neither the counter, the buffer, the primary
\* log, the availability state, the write gate nor the LED, and attempts no
\* flush.
C14_GatedTickIsNoOp ==
    [][(Tick /\ (~writeEnabled \/ ~sdAvailable)) =>
           /\ UNCHANGED <<lastNumber, dataBuffer, card, sdAvailable, writeEnabled, led>>
           /\ ~flush'.called]_vars

\* A tick has run with writes suspended and records waiting in the buffer.
C14_Witness == last = "tick" /\ ~writeEnabled /\ sdAvailable /\ dataBuffer # <<>>

\* C15: whenever a bufferData tick returns with sdAvailable true, the
\* serialized buffer is shorter than bufferSizeLimit.
C15_BufferBelowLimit ==
    (last = "tick" /\ sdAvailable) => BufferLength(variant, dataBuffer) < bufferSizeLimit

(***************************************************************************)
(* SpecBackups: the callbacks of Spec, with createBackup fired by          *)
(* backupTimer.attach(3600, createBackup): two runs of it never read the   *)
(* same clock value.  spaced is the clock step of the last run.            *)
(***************************************************************************)
BackupSpaced ==
    /\ now > spaced
    /\ \E readOk \in BOOLEAN, writeOk \in BOOLEAN, quota \in 0..MaxQuota :
           createBackup(readOk, writeOk, quota)
    /\ spaced' = now
    /\ UNCHANGED <<probes, events, run, timers, stamp, pc>>

TickCopied ==
    /\ \E beginOk \in BOOLEAN, openOk \in BOOLEAN : bufferData(MaxCopied, beginOk, openOk)
    /\ UNCHANGED observers

NextBackups == Probe \/ TickCopied \/ Suspend \/ Resume \/ BackupSpaced \/ Tock

SpecBackups == Init /\ [][NextBackups]_vars

\* C13: a backup that createBackup completes holds the primary log as it was
\* when createBackup ran; createBackup changes neither the primary log nor
\* the buffer; and no step changes the content of a backup that exists before
\* and after it.
C13_BackupIsImmutableCopy ==
    [][/\ (BackupSpaced /\ retention'.ran) =>
              /\ HasFile(card', BackupPath(variant, now))
              /\ FileData(card', BackupPath(variant, now)) = LogOf(card)
       /\ BackupSpaced =>
              /\ HasFile(card', dataFileName) <=> HasFile(card, dataFileName)
              /\ LogOf(card') = LogOf(card)
              /\ dataBuffer' = dataBuffer
       /\ \A i \in 1..Len(card) :
              (IsBackup(card[i]) /\ HasFile(card', card[i].name)) =>
                  FileData(card', card[i].name) = card[i].data]_vars

\* A second backup has just been completed, of a log that had grown since the
\* first.
C13_Witness ==
    /\ last = "backup"
    /\ retention.ran
    /\ \E i \in 1..Len(card), j \in 1..Len(card) :
           /\ IsBackup(card[i])
           /\ IsBackup(card[j])
           /\ card[i].data # card[j].data

(***************************************************************************)
(* SpecStamp: the timestamp createBackup embeds in a file name and the key *)
(* cleanupOldBackups parses from that name, for two clock readings         *)
(* t1 < t2 around midnight.                                                *)
(***************************************************************************)
InitStamp ==
    /\ Boot
    /\ card = <<>>
    /\ now = 0
    /\ \E t1 \in 0..MaxStamp, t2 \in 0..MaxStamp :
           /\ t1 < t2
           /\ stamp = [NoStamp EXCEPT !.t1 = t1, !.t2 = t2]

Render ==
    /\ ~stamp.done
    /\ stamp' = [stamp EXCEPT !.done = TRUE,
                              !.s1 = BackupStamp(variant, stamp.t1),
                              !.s2 = BackupStamp(variant, stamp.t2),
                              !.k1 = FileTime(BackupPath(variant, stamp.t1)),
                              !.k2 = FileTime(BackupPath(variant, stamp.t2))]
    /\ UNCHANGED <<core, probes, events, run, timers, spaced, pc>>

NextStamp == Render

SpecStamp == InitStamp /\ [][NextStamp]_vars

\* The ASCII code of a character of a timestamp.
Code(c) ==
    IF c = " " THEN 32
    ELSE IF c = "-" THEN 45
    ELSE IF c = ":" THEN 58
    ELSE 48 + DigitVal(c)

RECURSIVE LexLeq(_, _)
\* a <= b in the lexical order of strings.
LexLeq(a, b) ==
    IF a = <<>> THEN TRUE
    ELSE IF b = <<>> THEN FALSE
    ELSE IF Code(Head(a)) < Code(Head(b)) THEN TRUE
    ELSE IF Code(Head(a)) > Code(Head(b)) THEN FALSE
    ELSE LexLeq(Tail(a), Tail(b))

\* C17: for clock readings t1 earlier than t2, the string getTimestamp
\* renders for t1 is lexically less than or equal to the one for t2.
C17_TimestampMonotone ==
    (variant = "RTC" /\ stamp.done) => LexLeq(stamp.s1, stamp.s2)

\* C18: two backups that part_000's createBackup names at clock readings
\* t1 earlier than t2 get different keys from the retention pass, the key of
\* t1 being the smaller.
C18_KeysOrderedAsCreation ==
    (variant = "RTC" /\ stamp.done) => stamp.k1 < stamp.k2

(***************************************************************************)
(* SpecInterleave: bufferData and stopWritingAndSaveAsync taken statement  *)
(* by statement, each from its own dispatcher context, so that one may run *)
(* between two statements of the other.  pc.tick and pc.susp are the       *)
(* statements they stand at; each has its own call of writeDataFromBuffer  *)
(* ("begin", "open", "print", "clear").  checkSDCard and the resume lambda *)
(* are single steps.  pc.raced records that the tick has appended to the   *)
(* buffer while the flush called by suspend stood between file.print and   *)
(* the clearing of the buffer.                                             *)
(***************************************************************************)
Contexts == {"tick", "susp"}

\* Where writeDataFromBuffer returns to.
Return(p) == IF p = "tick" THEN "idle" ELSE "arm"

observed == <<last, serial, flush, retention, fails>>

\* if (!writeEnabled || !sdAvailable) return;
TickGate ==
    /\ pc.tick = "idle"
    /\ writeEnabled /\ sdAvailable
    /\ lastNumber < MaxRace
    /\ pc' = [pc EXCEPT !.tick = "inc"]
    /\ UNCHANGED <<variant, sdAvailable, lastNumber, writeEnabled, dataBuffer, led,
                   resumeArmed, card, now, observed, probes, events, run, timers,
                   stamp, spaced>>

\* lastNumber++;
TickInc ==
    /\ pc.tick = "inc"
    /\ lastNumber' = lastNumber + 1
    /\ pc' = [pc EXCEPT !.tick = "append"]
    /\ UNCHANGED <<variant, sdAvailable, writeEnabled, dataBuffer, led,
                   resumeArmed, card, now, observed, probes, events, run, timers,
                   stamp, spaced>>

\* dataBuffer += ... + String(lastNumber) + "\n";
TickAppend ==
    /\ pc.tick = "append"
    /\ dataBuffer' = Append(dataBuffer, lastNumber)
    /\ pc' = [pc EXCEPT !.tick = "limit", !.raced = @ \/ pc.susp = "clear"]
    /\ UNCHANGED <<variant, sdAvailable, lastNumber, writeEnabled, led,
                   resumeArmed, card, now, observed, probes, events, run, timers,
                   stamp, spaced>>

\* if (dataBuffer.length() >= bufferSizeLimit) writeDataFromBuffer();
TickLimit ==
    /\ pc.tick = "limit"
    /\ pc' = [pc EXCEPT !.tick = IF BufferLength(variant, dataBuffer) >= bufferSizeLimit
                                 THEN "begin" ELSE "idle"]
    /\ UNCHANGED <<variant, sdAvailable, lastNumber, writeEnabled, dataBuffer, led,
                   resumeArmed, card, now, observed, probes, events, run, timers,
                   stamp, spaced>>

\* writeEnabled = false; digitalWrite(LED_PIN, HIGH);
SuspendGate ==
    /\ pc.susp = "idle"
    /\ writeEnabled' = FALSE
    /\ led' = TRUE
    /\ pc' = [pc EXCEPT !.susp = "test"]
    /\ UNCHANGED <<variant, sdAvailable, lastNumber, dataBuffer,
                   resumeArmed, card, now, observed, probes, events, run, timers,
                   stamp, spaced>>

\* if (dataBuffer.length() > 0) writeDataFromBuffer();
SuspendTest ==
    /\ pc.susp = "test"
    /\ pc' = [pc EXCEPT !.susp = IF Len(dataBuffer) > 0 THEN "begin" ELSE "arm"]
    /\ UNCHANGED <<variant, sdAvailable, lastNumber, writeEnabled, dataBuffer, led,
                   resumeArmed, card, now, observed, probes, events, run, timers,
                   stamp, spaced>>

\* resumeWritingTicker.once(2, ...), and the return.
SuspendArm ==
    /\ pc.susp = "arm"
    /\ resumeArmed' = (variant = "RTC")
    /\ pc' = [pc EXCEPT !.susp = "idle"]
    /\ UNCHANGED <<variant, sdAvailable, lastNumber, writeEnabled, dataBuffer, led,
                   card, now, observed, probes, events, run, timers, stamp, spaced>>

\* part_000: if (!SD.begin(CS_PIN)) {...; return;} sdAvailable = true; LED low.
\* CD.ino: if (!sdAvailable) {...; return;}
FlushBegin ==
    \E p \in Contexts, beginOk \in BOOLEAN :
        /\ pc[p] = "begin"
        /\ IF variant = "RTC"
           THEN /\ sdAvailable' = beginOk
                /\ led' = ~beginOk
                /\ pc' = [pc EXCEPT ![p] = IF beginOk THEN "open" ELSE Return(p)]
           ELSE /\ UNCHANGED <<sdAvailable, led>>
                /\ pc' = [pc EXCEPT ![p] = IF sdAvailable THEN "open" ELSE Return(p)]
        /\ UNCHANGED <<variant, lastNumber, writeEnabled, dataBuffer, resumeArmed, card,
                       now, observed, probes, events, run, timers, stamp, spaced>>

\* File file = SD.open(dataFileName, FILE_APPEND); if (!file) {...; return;}
FlushOpen ==
    \E p \in Contexts, openOk \in BOOLEAN :
        /\ pc[p] = "open"
        /\ pc' = [pc EXCEPT ![p] = IF openOk THEN "print" ELSE Return(p)]
        /\ UNCHANGED <<variant, sdAvailable, lastNumber, writeEnabled, dataBuffer, led,
                       resumeArmed, card, now, observed, probes, events, run, timers,
                       stamp, spaced>>

\* file.print(dataBuffer); file.close();
FlushPrint ==
    \E p \in Contexts :
        /\ pc[p] = "print"
        /\ card' = AppendFile(card, dataFileName, dataBuffer)
        /\ pc' = [pc EXCEPT ![p] = "clear"]
        /\ UNCHANGED <<variant, sdAvailable, lastNumber, writeEnabled, dataBuffer, led,
                       resumeArmed, now, observed, probes, events, run, timers,
                       stamp, spaced>>

\* dataBuffer = "";
FlushClear ==
    \E p \in Contexts :
        /\ pc[p] = "clear"
        /\ dataBuffer' = <<>>
        /\ pc' = [pc EXCEPT ![p] = Return(p)]
        /\ UNCHANGED <<variant, sdAvailable, lastNumber, writeEnabled, led,
                       resumeArmed, card, now, observed, probes, events, run, timers,
                       stamp, spaced>>

NextInterleave ==
    \/ Probe \/ Resume
    \/ TickGate \/ TickInc \/ TickAppend \/ TickLimit
    \/ SuspendGate \/ SuspendTest \/ SuspendArm
    \/ FlushBegin \/ FlushOpen \/ FlushPrint \/ FlushClear

SpecInterleave == Init /\ [][NextInterleave]_vars

\* How often record n occurs in the primary log and the buffer together.
Occurrences(n) ==
    LET all == LogOf(card) \o dataBuffer
    IN  Cardinality({i \in 1..Len(all) : all[i] = n})

\* C19: when a tick has appended to the buffer while the flush called by
\* suspend stood between file.print and the clearing of the buffer, and both
\* callbacks have returned, every sequence number up to lastNumber occurs
\* exactly once in the primary log or the buffer.
C19_NoRecordLost ==
    (pc.raced /\ pc.tick = "idle" /\ pc.susp = "idle") =>
        \A n \in 1..lastNumber : Occurrences(n) = 1

====
